---- MODULE Spec2Model ----
(***************************************************************************)
(* A model of src/bf.c, the Brainfuck interpreter of the repository.       *)
(*                                                                         *)
(* The interpreter reads the whole of standard input into the array        *)
(* `code` (cread), then runs the dispatch loop of main over `code` and the *)
(* tape `data` until it fetches a NUL byte.  Both arrays have 30000 bytes  *)
(* in the source; the model scales them down to CodeSize and DataSize.     *)
(*                                                                         *)
(* The C code checks no bound.  An access outside an array is undefined    *)
(* behaviour, modelled as a choice between the outcomes a build produces:  *)
(* the process is killed (status "Crashed"), or the access hits memory     *)
(* next to the array: a read yields some byte of StrayBytes, a write lands *)
(* in memory the model does not track (or, in cread, in the tape that      *)
(* follows the program buffer).                                            *)
(***************************************************************************)
EXTENDS Integers, Sequences, FiniteSets, TLC

VARIABLES
    stdin,      \* the bytes of standard input not yet read by getchar
    code,       \* char code[30000]
    cp,         \* cread's write pointer `code`, as an index into code
    ip,         \* main's instruction pointer, as an index into code
    data,       \* char data[30000], each cell as its byte 0..255
    dp,         \* main's data pointer, as an index into data
    out,        \* the bytes written to standard output by putchar
    status,     \* "Loading" (in cread), "Running" (in the while loop),
                \* "Halted" (main returned), "Crashed" (killed by a fault)
    lastip,     \* history: index of the instruction dispatched last, -1 if none
    twin        \* a second run of the same input (used by SpecTwin only)

vars == <<stdin, code, cp, ip, data, dp, out, status, lastip, twin>>

(***************************************************************************)
(* Bounds of the model.                                                    *)
(***************************************************************************)
CodeSize == 10      \* size of code[], 30000 in the source
DataSize == 3       \* size of data[], 30000 in the source
MaxLen == 3         \* every input of at most MaxLen bytes is explored
StrayLen == 1       \* bytes next to an array that a stray access can hit
MaxOut == 3         \* output longer than this is not explored further
BracketLen == 6     \* every input of '[', ']', 'A' up to this length is explored

(***************************************************************************)
(* Bytes.                                                                  *)
(***************************************************************************)
Byte == 0..255
NUL == 0
GT == 62
LT == 60
PLUS == 43
MINUS == 45
DOT == 46
COMMA == 44
LBRACKET == 91
RBRACKET == 93
EOF == -1

Instructions == {GT, LT, PLUS, MINUS, DOT, COMMA, LBRACKET, RBRACKET}

\* Conversion of an int to the byte stored in a char.
ToChar(v) == v % 256

\* Mutant of IncCell: the cell saturates at 255 instead of wrapping.
IncCellSaturates(v) == IF v = 255 THEN 255 ELSE v + 1

\* ++(*dp) and --(*dp) on a char: int arithmetic, converted back to char.
IncCell(v) == ToChar(v + 1)
DecCell(v) == ToChar(v - 1)

InCode(i) == i \in 0..(CodeSize - 1)
InData(i) == i \in 0..(DataSize - 1)
NearCode(i) == i \in (0 - StrayLen)..(CodeSize - 1 + StrayLen)
NearData(i) == i \in (0 - StrayLen)..(DataSize - 1 + StrayLen)

\* Values a read outside an array can yield: a zero byte and a non-zero one
\* (']', so that a stray fetch can also be a jump).
StrayBytes == {NUL, RBRACKET}

(***************************************************************************)
(* getchar: the next byte of standard input, or EOF at end-of-stream.      *)
(***************************************************************************)
Getchar(in) == IF in = <<>> THEN EOF ELSE Head(in)
Rest(in) == IF in = <<>> THEN in ELSE Tail(in)

(***************************************************************************)
(* flookup / blookup.  The scan of the for loop, from position p with the  *)
(* nesting counter count.  The result is the index the loop stops at; a    *)
(* scan that leaves the buffer yields the first index outside it, which is *)
(* where the C code first reads out of bounds.                             *)
(***************************************************************************)
RECURSIVE fscan(_, _, _)
fscan(c, p, count) ==
    IF ~InCode(p) THEN p
    ELSE IF c[p] = RBRACKET /\ count = 0 THEN p
    ELSE fscan(c, p + 1,
               count + (IF c[p] = LBRACKET THEN 1 ELSE 0)
                     - (IF c[p] = RBRACKET THEN 1 ELSE 0))

\* Mutant of flookup: the scan starts on the '[' itself and counts it.
flookupCountsSelf(c, i) == fscan(c, i, 0)

\* Mutant of flookup: the first ']' after i, whatever the nesting.
flookupFirstClose(c, i) ==
    IF \E p \in (i + 1)..(CodeSize - 1) : c[p] = RBRACKET
    THEN CHOOSE p \in (i + 1)..(CodeSize - 1) :
            /\ c[p] = RBRACKET
            /\ \A r \in (i + 1)..(p - 1) : c[r] # RBRACKET
    ELSE CodeSize

flookup(c, i) == fscan(c, i + 1, 0)

\* The values the nesting counter of flookup's loop takes from position p
\* on (as integers: a value below 0 is an underflow of the unsigned count).
RECURSIVE fcounts(_, _, _)
fcounts(c, p, count) ==
    IF ~InCode(p) THEN {count}
    ELSE IF c[p] = RBRACKET /\ count = 0 THEN {count}
    ELSE {count} \cup
         fcounts(c, p + 1,
                 count + (IF c[p] = LBRACKET THEN 1 ELSE 0)
                       - (IF c[p] = RBRACKET THEN 1 ELSE 0))

RECURSIVE bscan(_, _, _)
bscan(c, p, count) ==
    IF ~InCode(p) THEN p
    ELSE IF c[p] = LBRACKET /\ count = 0 THEN p
    ELSE bscan(c, p - 1,
               count + (IF c[p] = RBRACKET THEN 1 ELSE 0)
                     - (IF c[p] = LBRACKET THEN 1 ELSE 0))

blookup(c, i) == bscan(c, i - 1, 0)

\* The values the nesting counter of blookup's loop takes from position p on.
RECURSIVE bcounts(_, _, _)
bcounts(c, p, count) ==
    IF ~InCode(p) THEN {count}
    ELSE IF c[p] = LBRACKET /\ count = 0 THEN {count}
    ELSE {count} \cup
         bcounts(c, p - 1,
                 count + (IF c[p] = RBRACKET THEN 1 ELSE 0)
                       - (IF c[p] = LBRACKET THEN 1 ELSE 0))

\* Where a lookup can leave ip without the process being killed: the match,
\* or, when the scan ran off the buffer, a ']' / '[' found in stray memory.
JumpTargets(t) ==
    IF InCode(t) THEN {t}
    ELSE IF t < 0 THEN (0 - StrayLen)..(-1)
    ELSE CodeSize..(CodeSize - 1 + StrayLen)

(***************************************************************************)
(* The machine state as a record, and the memory accesses of main.         *)
(***************************************************************************)
cur == [stdin |-> stdin, code |-> code, cp |-> cp, ip |-> ip, data |-> data,
        dp |-> dp, out |-> out, status |-> status, lastip |-> lastip]

Become(n) ==
    /\ stdin' = n.stdin
    /\ code' = n.code
    /\ cp' = n.cp
    /\ ip' = n.ip
    /\ data' = n.data
    /\ dp' = n.dp
    /\ out' = n.out
    /\ status' = n.status
    /\ lastip' = n.lastip

\* The bytes `*ip` can yield.
Fetched(s) ==
    IF InCode(s.ip) THEN {s.code[s.ip]}
    ELSE IF NearCode(s.ip) THEN StrayBytes
    ELSE {}

\* The bytes `*dp` can yield.
ReadData(s) ==
    IF InData(s.dp) THEN {s.data[s.dp]}
    ELSE IF NearData(s.dp)
    THEN StrayBytes \cup (IF s.dp < 0 /\ InCode(CodeSize + s.dp)
                          THEN {s.code[CodeSize + s.dp]}
                          ELSE {})
    ELSE {}

\* The tape after `*dp = v`.
WriteData(s, v) ==
    IF InData(s.dp) THEN [s.data EXCEPT ![s.dp] = v] ELSE s.data

\* The program buffer after `*dp = v`: a store below data[] lands in
\* untracked memory, or in the end of code[] when data[] follows code[].
WriteCode(s, v) ==
    {s.code} \cup (IF s.dp < 0 /\ NearData(s.dp) /\ InCode(CodeSize + s.dp)
                   THEN {[s.code EXCEPT ![CodeSize + s.dp] = v]}
                   ELSE {})

Dispatches(s, b) == s.status = "Running" /\ b \in Fetched(s)

Advance(s) == [s EXCEPT !.ip = s.ip + 1, !.lastip = s.ip]

\* The states after `*dp = v, ++ip`.
Stored(s, v) ==
    {[Advance(s) EXCEPT !.data = WriteData(s, v), !.code = c] :
         c \in WriteCode(s, v)}

(***************************************************************************)
(* cread, one iteration of its while loop per step (bf.c lines 22-27).     *)
(* The memset of code is part of Init.                                     *)
(***************************************************************************)
StepCread(s) ==
    IF s.status # "Loading" THEN {}
    ELSE IF Getchar(s.stdin) = EOF THEN {[s EXCEPT !.status = "Running"]}
    ELSE IF InCode(s.cp)
    THEN {[s EXCEPT !.code = [s.code EXCEPT ![s.cp] = ToChar(Getchar(s.stdin))],
                    !.cp = s.cp + 1,
                    !.stdin = Rest(s.stdin)]}
    ELSE \* *code++ = current past the end of code[]: the byte lands in
         \* untracked memory, or in the tape when data[] follows code[].
         {[s EXCEPT !.cp = s.cp + 1, !.stdin = Rest(s.stdin)]}
         \cup
         (IF InData(s.cp - CodeSize)
          THEN {[s EXCEPT !.data = [s.data EXCEPT ![s.cp - CodeSize] =
                                        ToChar(Getchar(s.stdin))],
                          !.cp = s.cp + 1,
                          !.stdin = Rest(s.stdin)]}
          ELSE {})

(***************************************************************************)
(* The dispatch loop of main, one iteration per step (bf.c lines 35-65).   *)
(***************************************************************************)
\* Mutant of StepHalt: a zero byte is stepped over like any other byte.
StepHaltSkips(s) ==
    IF Dispatches(s, NUL) THEN {Advance(s)} ELSE {}

\* while (*ip != '\0') fails: return 0.
StepHalt(s) ==
    IF Dispatches(s, NUL) THEN {[s EXCEPT !.status = "Halted"]} ELSE {}

\* case '>': ++dp, ++ip;
StepRight(s) ==
    IF Dispatches(s, GT) THEN {[Advance(s) EXCEPT !.dp = s.dp + 1]} ELSE {}

\* Mutant of StepLeft: dp is not moved.
StepLeftStays(s) ==
    IF Dispatches(s, LT) THEN {Advance(s)} ELSE {}

\* case '<': --dp, ++ip;
StepLeft(s) ==
    IF Dispatches(s, LT) THEN {[Advance(s) EXCEPT !.dp = s.dp - 1]} ELSE {}

\* case '+': ++(*dp), ++ip;
StepInc(s) ==
    IF Dispatches(s, PLUS)
    THEN UNION {Stored(s, IncCell(v)) : v \in ReadData(s)}
    ELSE {}

\* case '-': --(*dp), ++ip;
StepDec(s) ==
    IF Dispatches(s, MINUS)
    THEN UNION {Stored(s, DecCell(v)) : v \in ReadData(s)}
    ELSE {}

\* case '.': putchar(*dp), ++ip;
StepOut(s) ==
    IF Dispatches(s, DOT) /\ Len(s.out) < MaxOut
    THEN {[Advance(s) EXCEPT !.out = Append(s.out, v)] : v \in ReadData(s)}
    ELSE {}

\* Mutant of StepIn: end-of-stream stores 0.
StepInZero(s) ==
    IF Dispatches(s, COMMA) /\ NearData(s.dp)
    THEN {[n EXCEPT !.stdin = Rest(s.stdin)] :
              n \in Stored(s, IF Getchar(s.stdin) = EOF
                              THEN 0
                              ELSE ToChar(Getchar(s.stdin)))}
    ELSE {}

\* case ',': *dp = getchar(), ++ip;
StepIn(s) ==
    IF Dispatches(s, COMMA) /\ NearData(s.dp)
    THEN {[n EXCEPT !.stdin = Rest(s.stdin)] :
              n \in Stored(s, ToChar(Getchar(s.stdin)))}
    ELSE {}

\* Mutant of StepOpen: a taken jump lands one past the matching ']'.
StepOpenPast(s) ==
    IF Dispatches(s, LBRACKET)
    THEN UNION {IF v = 0
                THEN {[s EXCEPT !.ip = t + 1, !.lastip = s.ip] :
                          t \in JumpTargets(flookup(s.code, s.ip))}
                ELSE {Advance(s)} : v \in ReadData(s)}
    ELSE {}

\* case '[': ip = (*dp == 0) ? flookup(ip) : ip + 1;
StepOpen(s) ==
    IF Dispatches(s, LBRACKET)
    THEN UNION {IF v = 0
                THEN {[s EXCEPT !.ip = t, !.lastip = s.ip] :
                          t \in JumpTargets(flookup(s.code, s.ip))}
                ELSE {Advance(s)} : v \in ReadData(s)}
    ELSE {}

\* Mutant of StepClose: the loop is never repeated.
StepCloseFalls(s) ==
    IF Dispatches(s, RBRACKET) THEN {Advance(s)} ELSE {}

\* case ']': ip = (*dp != 0) ? blookup(ip) : ip + 1;
StepClose(s) ==
    IF Dispatches(s, RBRACKET)
    THEN UNION {IF v # 0
                THEN {[s EXCEPT !.ip = t, !.lastip = s.ip] :
                          t \in JumpTargets(blookup(s.code, s.ip))}
                ELSE {Advance(s)} : v \in ReadData(s)}
    ELSE {}

\* default: ++ip;
StepDefault(s) ==
    IF \E b \in Byte \ (Instructions \cup {NUL}) : Dispatches(s, b)
    THEN {Advance(s)}
    ELSE {}

(***************************************************************************)
(* The process is killed by an access outside an array: the store of cread *)
(* past code[], the fetch *ip outside code[], an instruction that uses *dp *)
(* outside data[], or a lookup that scans out of code[].                   *)
(***************************************************************************)
UsesCell == {PLUS, MINUS, DOT, COMMA, LBRACKET, RBRACKET}

LookupRunsOff(s) ==
    \/ /\ Dispatches(s, LBRACKET)
       /\ 0 \in ReadData(s)
       /\ ~InCode(flookup(s.code, s.ip))
    \/ /\ Dispatches(s, RBRACKET)
       /\ ReadData(s) \ {0} # {}
       /\ ~InCode(blookup(s.code, s.ip))

Faults(s) ==
    \/ s.status = "Loading" /\ Getchar(s.stdin) # EOF /\ ~InCode(s.cp)
    \/ s.status = "Running" /\ ~InCode(s.ip)
    \/ s.status = "Running" /\ ~InData(s.dp) /\ Fetched(s) \cap UsesCell # {}
    \/ LookupRunsOff(s)

StepSegv(s) == IF Faults(s) THEN {[s EXCEPT !.status = "Crashed"]} ELSE {}

\* Every state one step of the program can lead to.
Succ(s) ==
    StepCread(s) \cup StepHalt(s) \cup StepRight(s) \cup StepLeft(s)
    \cup StepInc(s) \cup StepDec(s) \cup StepOut(s) \cup StepIn(s)
    \cup StepOpen(s) \cup StepClose(s) \cup StepDefault(s) \cup StepSegv(s)

(***************************************************************************)
(* Inputs.                                                                 *)
(***************************************************************************)
Alphabet == Instructions \cup {NUL, 65}

SeqsUpTo(S, n) == UNION {[1..k -> S] : k \in 0..n}

Str(k, b) == [i \in 1..k |-> b]

\* +[>+<-]>.
MoveIdiom == <<PLUS, LBRACKET, GT, PLUS, LT, MINUS, RBRACKET, GT, DOT>>

Scenarios ==
    {MoveIdiom,
     <<LBRACKET, LBRACKET, RBRACKET, RBRACKET>>,
     <<PLUS, LBRACKET, LBRACKET, MINUS, RBRACKET, RBRACKET>>,
     <<PLUS, LBRACKET, MINUS, RBRACKET, LBRACKET, RBRACKET>>,
     <<MINUS, LBRACKET, DOT, PLUS, RBRACKET>>,
     <<PLUS, PLUS, DOT>>,
     <<COMMA, LBRACKET, MINUS, RBRACKET>>,
     <<GT, PLUS, LT, COMMA>>,
     Str(CodeSize, PLUS), Str(CodeSize, GT),
     Str(CodeSize + 1, PLUS), Str(CodeSize + 2, 65)}
    \cup {<<COMMA, DOT, b>> : b \in Byte}
    \cup {<<b>> : b \in Byte}
    \cup {<<PLUS, b, DOT>> : b \in Byte}

\* Bracket structures: nested and adjacent loops, balanced or not.
BracketInputs == SeqsUpTo({LBRACKET, RBRACKET, 65}, BracketLen)

Inputs == SeqsUpTo(Alphabet, MaxLen) \cup Scenarios \cup BracketInputs

Fresh(in) ==
    [stdin |-> in, code |-> [i \in 0..(CodeSize - 1) |-> NUL], cp |-> 0, ip |-> 0,
     data |-> [i \in 0..(DataSize - 1) |-> 0], dp |-> 0, out |-> <<>>,
     status |-> "Loading", lastip |-> -1]

\* The value of twin in Spec, which runs the interpreter once.
NoTwin == [status |-> "Unused"]

(***************************************************************************)
(* Spec: one run of the interpreter on any input.                          *)
(***************************************************************************)
Init ==
    \E in \in Inputs :
        /\ stdin = in
        /\ code = Fresh(in).code
        /\ cp = 0
        /\ ip = 0
        /\ data = Fresh(in).data
        /\ dp = 0
        /\ out = <<>>
        /\ status = "Loading"
        /\ lastip = -1
        /\ twin = NoTwin

Cread ==
    /\ \E n \in StepCread(cur) : Become(n)
    /\ UNCHANGED twin

Halt ==
    /\ \E n \in StepHalt(cur) : Become(n)
    /\ UNCHANGED twin

Right ==
    /\ \E n \in StepRight(cur) : Become(n)
    /\ UNCHANGED twin

Left ==
    /\ \E n \in StepLeft(cur) : Become(n)
    /\ UNCHANGED twin

Inc ==
    /\ \E n \in StepInc(cur) : Become(n)
    /\ UNCHANGED twin

Dec ==
    /\ \E n \in StepDec(cur) : Become(n)
    /\ UNCHANGED twin

Out ==
    /\ \E n \in StepOut(cur) : Become(n)
    /\ UNCHANGED twin

In ==
    /\ \E n \in StepIn(cur) : Become(n)
    /\ UNCHANGED twin

Open ==
    /\ \E n \in StepOpen(cur) : Become(n)
    /\ UNCHANGED twin

Close ==
    /\ \E n \in StepClose(cur) : Become(n)
    /\ UNCHANGED twin

Default ==
    /\ \E n \in StepDefault(cur) : Become(n)
    /\ UNCHANGED twin

Segv ==
    /\ \E n \in StepSegv(cur) : Become(n)
    /\ UNCHANGED twin

Next ==
    \/ Cread
    \/ Halt
    \/ Right
    \/ Left
    \/ Inc
    \/ Dec
    \/ Out
    \/ In
    \/ Open
    \/ Close
    \/ Default
    \/ Segv

Spec == Init /\ [][Next]_vars

(***************************************************************************)
(* SpecTwin: two runs of the interpreter on the same input, a balanced     *)
(* program without ',' and '.', stepping together.  Each run takes any of  *)
(* the steps the program can take.                                         *)
(***************************************************************************)
RECURSIVE BalScan(_, _, _)
BalScan(q, i, depth) ==
    IF i > Len(q) THEN depth = 0
    ELSE LET d == depth + (IF q[i] = LBRACKET THEN 1 ELSE 0)
                        - (IF q[i] = RBRACKET THEN 1 ELSE 0)
         IN  IF d < 0 THEN FALSE ELSE BalScan(q, i + 1, d)

\* Every '[' has its ']' and vice versa: the counter never goes negative and
\* ends at zero.
Balanced(q) == BalScan(q, 1, 0)

NoIO(q) == \A i \in 1..Len(q) : q[i] \notin {COMMA, DOT}

TwinInputs == {q \in Inputs : Balanced(q) /\ NoIO(q)}

InitTwin ==
    \E in \in TwinInputs :
        /\ stdin = in
        /\ code = Fresh(in).code
        /\ cp = 0
        /\ ip = 0
        /\ data = Fresh(in).data
        /\ dp = 0
        /\ out = <<>>
        /\ status = "Loading"
        /\ lastip = -1
        /\ twin = Fresh(in)

TwinStep ==
    /\ \E n \in Succ(cur) : Become(n)
    /\ twin' \in Succ(twin)

SpecTwin == InitTwin /\ [][TwinStep]_vars

(***************************************************************************)
(* Vocabulary of the properties.                                           *)
(***************************************************************************)
\* The program as loaded: the bytes cread stored in code[].
Loaded == [i \in 1..(IF cp < CodeSize THEN cp ELSE CodeSize) |-> code[i - 1]]

ZeroTape == [i \in 0..(DataSize - 1) |-> 0]

\* The instruction dispatched last was the byte b, fetched from code[].
Ran(b) == InCode(lastip) /\ code[lastip] = b

\* This step dispatches the byte b, fetched from code[].
AtInstr(b) == status = "Running" /\ InCode(ip) /\ code[ip] = b

\* The table of a cell operation applied 2^k times, by repeated squaring.
RECURSIVE TablePow2(_, _)
TablePow2(f, k) ==
    IF k = 0 THEN f
    ELSE LET g == TablePow2(f, k - 1) IN [v \in Byte |-> g[g[v]]]

\* A cell after 256 executions of '+' (of '-') on it.
Inc256 == TablePow2([v \in Byte |-> IncCell(v)], 8)
Dec256 == TablePow2([v \in Byte |-> DecCell(v)], 8)

(***************************************************************************)
(* C1.  While the engine is running the data pointer stays inside the      *)
(* tape, 0 <= dp < DataSize: a '<' at dp = 0 or a '>' at the last cell     *)
(* stops the run instead of leaving dp outside the tape.                   *)
(* bf.c moves dp with no check, so the statement fails.                    *)
(***************************************************************************)
C1_DpStaysInTape == status = "Running" => InData(dp)

(***************************************************************************)
(* C2.  An input of more than CodeSize bytes is rejected before execution: *)
(* no byte is stored at an index >= CodeSize of the program buffer, no     *)
(* instruction runs, the tape stays zero and nothing is output.            *)
(* cread stores every byte it reads, so the statement fails.               *)
(***************************************************************************)
C2_TooLargeRejected ==
    cp + Len(stdin) > CodeSize =>
        /\ cp <= CodeSize
        /\ status \notin {"Running", "Halted"}
        /\ data = ZeroTape
        /\ out = <<>>

(***************************************************************************)
(* C3.  A program with unbalanced brackets never reaches execution: no     *)
(* instruction of it is dispatched and no jump lookup is started on it     *)
(* (so none runs off the program and kills the run).                       *)
(* bf.c validates nothing, so the statement fails.                         *)
(***************************************************************************)
C3_UnbalancedRejected ==
    (status # "Loading" /\ cp <= CodeSize /\ ~Balanced(Loaded)) =>
        lastip = -1 /\ status \notin {"Halted", "Crashed"}

(***************************************************************************)
(* C4 as stated.  After a ',' executed at end-of-stream the cell at dp     *)
(* holds 0.                                                                *)
(***************************************************************************)
C4_EofStoresZero ==
    (Ran(COMMA) /\ ip = lastip + 1 /\ InData(dp)) => data[dp] = 0

(***************************************************************************)
(* C4 as amended.  A ',' executed at end-of-stream on a cell of the tape   *)
(* sets that cell to 255 (EOF, -1, converted to char), whatever it held,   *)
(* changes no other cell and advances ip by 1.                             *)
(***************************************************************************)
C4_EofStores255 ==
    [][(AtInstr(COMMA) /\ InData(dp) /\ stdin = <<>>) =>
            /\ data' = [data EXCEPT ![dp] = 255]
            /\ ip' = ip + 1
            /\ dp' = dp]_vars

\* "+," has run: the cell held 1 and now holds 255.
C4_Witness ==
    /\ Ran(COMMA) /\ ip = lastip + 1 /\ lastip = 1
    /\ code[0] = PLUS
    /\ dp = 0 /\ data[0] = 255

(***************************************************************************)
(* C5.  The input of ',' is a stream of its own: the program ",." given    *)
(* the input byte b halts having output exactly b.                         *)
(* bf.c has one stream, standard input, and cread reads all of it as the   *)
(* program: the byte b that follows ",." becomes code[2] and ',' finds the *)
(* stream at its end, so the statement fails.                              *)
(***************************************************************************)
C5_CommaDotEchoes ==
    (status = "Halted" /\ cp = 3 /\ code[0] = COMMA /\ code[1] = DOT) =>
        out = <<code[2]>>

(***************************************************************************)
(* C6.  Cells are bytes that wrap: every cell is in 0..255 in every state, *)
(* '+' on 255 gives 0 and on any other value one more, '-' on 0 gives 255  *)
(* and on any other value one less, and 256 increments (or 256 decrements) *)
(* of the current cell give back its value.                                *)
(***************************************************************************)
C6_Law256 ==
    InData(dp) =>
        /\ Inc256[data[dp]] = data[dp]
        /\ Dec256[data[dp]] = data[dp]

C6_CellsWrap ==
    /\ [](\A i \in 0..(DataSize - 1) : data[i] \in Byte)
    /\ [](C6_Law256)
    /\ [][(AtInstr(PLUS) /\ InData(dp)) =>
            data'[dp] = (IF data[dp] = 255 THEN 0 ELSE data[dp] + 1)]_vars
    /\ [][(AtInstr(MINUS) /\ InData(dp)) =>
            data'[dp] = (IF data[dp] = 0 THEN 255 ELSE data[dp] - 1)]_vars

\* '+' has just wrapped a cell from 255 to 0, e.g. in "-+".
C6_Witness ==
    /\ Ran(PLUS) /\ ip = lastip + 1 /\ lastip > 0
    /\ code[lastip - 1] = MINUS
    /\ InData(dp) /\ data[dp] = 0

(***************************************************************************)
(* C7.  Two runs of a balanced program without ',' and '.' from a fresh    *)
(* tape go through the same states (ip, dp, tape, status).                 *)
(* A balanced program can move dp off the tape (C1); what the access there *)
(* does is undefined, so two runs can differ and the statement fails.      *)
(***************************************************************************)
C7_RunsAgree ==
    /\ twin.ip = ip
    /\ twin.dp = dp
    /\ twin.data = data
    /\ twin.status = status

(***************************************************************************)
(* C8 as stated.  A step on any byte that is none of the 8 instructions,   *)
(* the byte 0 included, sets ip to ip + 1 and leaves dp, the tape, the     *)
(* output and the running state unchanged.                                 *)
(***************************************************************************)
C8_OtherBytesNoOp ==
    [][(status = "Running" /\ InCode(ip) /\ ip < cp /\ code[ip] \notin Instructions) =>
            /\ ip' = ip + 1
            /\ status' = "Running"
            /\ UNCHANGED <<dp, data, out>>]_vars

(***************************************************************************)
(* C8 as amended.  A step on any byte other than the 8 instructions and    *)
(* other than 0 sets ip to ip + 1 and leaves dp, the tape, the output, the *)
(* program and the running state unchanged; the byte 0 is no no-op: it     *)
(* ends the run (Halted) with ip, dp, the tape and the output unchanged.   *)
(***************************************************************************)
C8_NonZeroOtherBytesNoOp ==
    [][(status = "Running" /\ InCode(ip) /\ code[ip] \notin Instructions) =>
            /\ UNCHANGED <<dp, data, out, code>>
            /\ IF code[ip] = NUL
               THEN ip' = ip /\ status' = "Halted"
               ELSE ip' = ip + 1 /\ status' = "Running"]_vars

\* The byte 255 has been stepped over.
C8_Witness ==
    /\ Ran(255) /\ ip = lastip + 1 /\ status = "Running"
    /\ dp = 0 /\ data = ZeroTape /\ out = <<>>

(***************************************************************************)
(* C9.  For a loaded program of n <= CodeSize bytes the run halts exactly  *)
(* at ip = n: it does not halt at another ip, it is not killed by the      *)
(* fetch at ip = n, and it dispatches no instruction from an index >= n.   *)
(* Stated here for the balanced programs that hold no zero byte (a zero    *)
(* byte inside the program is the subject of C8).                          *)
(* bf.c ends the run at the first zero byte it fetches: a program that     *)
(* fills code[] has none, and the fetch at ip = n reads past the array.    *)
(***************************************************************************)
C9_HaltsExactlyAtEnd ==
    (/\ status # "Loading"
     /\ cp <= CodeSize
     /\ Balanced(Loaded)
     /\ \A i \in 1..Len(Loaded) : Loaded[i] # NUL) =>
        /\ status = "Halted" => ip = cp
        /\ status = "Crashed" => ip # cp
        /\ lastip < cp

(***************************************************************************)
(* C10 as stated.  A '[' on a zero cell sets ip to one past its matching   *)
(* ']', and a ']' on a non-zero cell sets ip to one past its matching '['. *)
(***************************************************************************)
C10_JumpLandsPastMatch ==
    /\ (Ran(LBRACKET) /\ InData(dp) /\ data[dp] = 0
            /\ InCode(flookup(code, lastip)))
        => ip = flookup(code, lastip) + 1
    /\ (Ran(RBRACKET) /\ InData(dp) /\ data[dp] # 0
            /\ InCode(blookup(code, lastip)))
        => ip = blookup(code, lastip) + 1

(***************************************************************************)
(* C10 as amended.  A step on '[' with dp on the tape sets ip to the index *)
(* of the matching ']' itself (flookup, when the program holds a match)    *)
(* if the cell is 0 and to ip + 1 otherwise; a step on ']' sets ip to the  *)
(* index of the matching '[' itself (blookup) if the cell is not 0 and to  *)
(* ip + 1 otherwise; dp and the tape are unchanged in both.                *)
(***************************************************************************)
C10_JumpLandsOnMatch ==
    [][/\ (AtInstr(LBRACKET) /\ InData(dp)
              /\ (data[dp] = 0 => InCode(flookup(code, ip))))
          => /\ ip' = (IF data[dp] = 0 THEN flookup(code, ip) ELSE ip + 1)
             /\ UNCHANGED <<dp, data>>
       /\ (AtInstr(RBRACKET) /\ InData(dp)
              /\ (data[dp] # 0 => InCode(blookup(code, ip))))
          => /\ ip' = (IF data[dp] # 0 THEN blookup(code, ip) ELSE ip + 1)
             /\ UNCHANGED <<dp, data>>]_vars

\* A '[' on a zero cell has jumped over a non-empty loop body onto its ']'.
C10_Witness ==
    /\ Ran(LBRACKET) /\ InData(dp) /\ data[dp] = 0
    /\ ip = flookup(code, lastip) /\ ip > lastip + 1
    /\ InCode(ip) /\ code[ip] = RBRACKET
    /\ status = "Running"

(***************************************************************************)
(* C11.  Once dp is outside the tape the run has stopped at that step:     *)
(* no further instruction is dispatched, no cell is written and no byte is *)
(* output afterwards (a step can only report the fault).                   *)
(* bf.c detects nothing (C1) and goes on dispatching, so the statement     *)
(* fails.                                                                  *)
(***************************************************************************)
C11_StopsAtViolation ==
    [][(status = "Running" /\ ~InData(dp)) =>
            UNCHANGED <<ip, lastip, dp, data, out>>]_vars

(***************************************************************************)
(* SpecClear: the runs of the programs P[-] whose prefix P sets the first  *)
(* cell to n with '+' (n times) or ',' (n = 255) and holds no '-', with    *)
(* the executions of '-' counted.                                          *)
(***************************************************************************)
ClearLoop == <<LBRACKET, MINUS, RBRACKET>>

ClearInputs ==
    {Str(k, PLUS) \o ClearLoop : k \in 0..(CodeSize - 4)}
    \cup {<<COMMA>> \o ClearLoop}

\* The value the prefix gives the cell: the number of '+', or 255 after ','.
StartValue ==
    IF code[0] = COMMA THEN 255
    ELSE Cardinality({i \in 0..(CodeSize - 1) : code[i] = PLUS})

InitClear ==
    \E in \in ClearInputs :
        /\ stdin = in
        /\ code = Fresh(in).code
        /\ cp = 0
        /\ ip = 0
        /\ data = Fresh(in).data
        /\ dp = 0
        /\ out = <<>>
        /\ status = "Loading"
        /\ lastip = -1
        /\ twin = [decs |-> 0]

\* One step of the program; twin.decs counts the steps that execute '-'.
ClearStep ==
    /\ \E n \in Succ(cur) : Become(n)
    /\ twin' = [decs |-> twin.decs + (IF StepDec(cur) # {} THEN 1 ELSE 0)]

SpecClear == InitClear /\ [][ClearStep]_vars

(***************************************************************************)
(* C12.  The loop [-] entered with the cell at n leaves it at 0 after      *)
(* executing '-' exactly n times, with dp and every other cell unchanged:  *)
(* at every moment the number of '-' executed so far plus the value of the *)
(* cell is n (so from each value v on the way down exactly v more are      *)
(* executed), and the halted run has executed n of them and has cell 0.    *)
(***************************************************************************)
C12_ClearLoopCounts ==
    status \in {"Running", "Halted"} =>
        /\ dp = 0
        /\ \A i \in 1..(DataSize - 1) : data[i] = 0
        /\ IF ip < cp - 3
           THEN twin.decs = 0                           \* still in the prefix
           ELSE twin.decs + data[0] = StartValue        \* in or after the loop
        /\ status = "Halted" =>
              /\ data[0] = 0
              /\ twin.decs = StartValue
              /\ ip = cp

\* +++++[-] has halted: 5 executions of '-' (the spec's case).
C12_Witness ==
    /\ status = "Halted"
    /\ StartValue = 5
    /\ twin.decs = 5
    /\ data[0] = 0

(***************************************************************************)
(* C13.  The program +[>+<-]>. run from the initial state halts with       *)
(* dp = 1, cell 0 equal to 0, cell 1 equal to 1 and the output <<1>>.      *)
(***************************************************************************)
C13_MoveIdiom ==
    (status = "Halted" /\ Loaded = MoveIdiom) =>
        /\ dp = 1
        /\ data[0] = 0
        /\ data[1] = 1
        /\ \A i \in 2..(DataSize - 1) : data[i] = 0
        /\ out = <<1>>
        /\ ip = cp

\* The run of +[>+<-]>. has halted, having executed the '.' last.
C13_Witness ==
    /\ status = "Halted"
    /\ Loaded = MoveIdiom
    /\ lastip = 8
    /\ out # <<>>

(***************************************************************************)
(* C14.  In a balanced program, flookup started at any '[' and blookup     *)
(* started at any ']' stop inside the program (so they terminate and read  *)
(* only indices in [0, length)), and their nesting counter never goes      *)
(* below 0.                                                                *)
(***************************************************************************)
BalancedLoaded == status # "Loading" /\ cp <= CodeSize /\ Balanced(Loaded)

C14_LookupsStayInProgram ==
    BalancedLoaded =>
        \A i \in 0..(cp - 1) :
            /\ code[i] = LBRACKET =>
                  /\ flookup(code, i) \in (i + 1)..(cp - 1)
                  /\ \A k \in fcounts(code, i + 1, 0) : k >= 0
            /\ code[i] = RBRACKET =>
                  /\ blookup(code, i) \in 0..(i - 1)
                  /\ \A k \in bcounts(code, i - 1, 0) : k >= 0

\* In [[]] the outer '[' has jumped to its ']': the scan passed the inner
\* pair, with the counter at 1 in between.
C14_Witness ==
    /\ BalancedLoaded
    /\ Loaded = <<LBRACKET, LBRACKET, RBRACKET, RBRACKET>>
    /\ lastip = 0 /\ ip = 3
    /\ 1 \in fcounts(code, 1, 0)

(***************************************************************************)
(* The pairs (i, j) of a stack-based bracket matcher run over the program  *)
(* q: a '[' is pushed, a ']' is paired with the '[' popped.  Indices are   *)
(* those of code[] (from 0).                                               *)
(***************************************************************************)
RECURSIVE StackPairs(_, _, _)
StackPairs(q, k, stack) ==
    IF k > Len(q) THEN {}
    ELSE IF q[k] = LBRACKET
    THEN StackPairs(q, k + 1, <<k - 1>> \o stack)
    ELSE IF q[k] = RBRACKET /\ stack # <<>>
    THEN {<<Head(stack), k - 1>>} \cup StackPairs(q, k + 1, Tail(stack))
    ELSE StackPairs(q, k + 1, stack)

Pairs == StackPairs(Loaded, 1, <<>>)

(***************************************************************************)
(* C15.  In a balanced program flookup at a '[' is the ']' the stack-based *)
(* matcher pairs with it, blookup at a ']' is the '[' paired with it, and  *)
(* blookup(flookup(i)) = i.                                                *)
(***************************************************************************)
C15_LookupsMatchStack ==
    BalancedLoaded =>
        /\ \A pr \in Pairs :
              /\ flookup(code, pr[1]) = pr[2]
              /\ blookup(code, pr[2]) = pr[1]
        /\ \A i \in 0..(cp - 1) :
              /\ code[i] \in {LBRACKET, RBRACKET} =>
                    \E pr \in Pairs : i \in {pr[1], pr[2]}
              /\ code[i] = LBRACKET => blookup(code, flookup(code, i)) = i

\* [[]][] is loaded (nested and adjacent loops) and its first '[' has
\* jumped to its ']' at index 3.
C15_Witness ==
    /\ BalancedLoaded
    /\ Loaded = <<LBRACKET, LBRACKET, RBRACKET, RBRACKET, LBRACKET, RBRACKET>>
    /\ lastip = 0 /\ ip = 3

(***************************************************************************)
(* C16.  Every execution step leaves the program unchanged and changes at  *)
(* most the tape cell under dp, and that only on '+', '-' and ','.         *)
(***************************************************************************)
C16_StepFrame ==
    [][status = "Running" =>
          /\ code' = code
          /\ \A i \in 0..(DataSize - 1) :
                data'[i] # data[i] =>
                    /\ i = dp
                    /\ InCode(ip)
                    /\ code[ip] \in {PLUS, MINUS, COMMA}]_vars

(***************************************************************************)
(* C17.  A '.' appends exactly one byte, the value of the tape cell under  *)
(* dp, to the output and changes nothing else but ip; no other instruction *)
(* changes the output.                                                     *)
(***************************************************************************)
C17_DotAppendsCell ==
    [][status = "Running" =>
          IF InCode(ip) /\ code[ip] = DOT
          THEN /\ InData(dp)
               /\ out' = Append(out, data[dp])
               /\ ip' = ip + 1
               /\ status' = "Running"
               /\ UNCHANGED <<dp, data, code, stdin>>
          ELSE out' = out]_vars

(***************************************************************************)
(* Two runs of one balanced program side by side: the current state is the *)
(* run of bf.c, whose taken jumps land on the matching bracket, and twin   *)
(* is the run whose taken jumps land one past it.  The run of bf.c needs   *)
(* one more step after a taken jump, the dispatch of the bracket it landed *)
(* on; twin waits during that step.                                        *)
(***************************************************************************)
\* case ']' of the other run: a taken jump lands one past the matching '['.
StepClosePast(s) ==
    IF Dispatches(s, RBRACKET)
    THEN UNION {IF v # 0
                THEN {[s EXCEPT !.ip = t + 1, !.lastip = s.ip] :
                          t \in JumpTargets(blookup(s.code, s.ip))}
                ELSE {Advance(s)} : v \in ReadData(s)}
    ELSE {}

SuccPast(s) ==
    StepCread(s) \cup StepHalt(s) \cup StepRight(s) \cup StepLeft(s)
    \cup StepInc(s) \cup StepDec(s) \cup StepOut(s) \cup StepIn(s)
    \cup StepOpenPast(s) \cup StepClosePast(s) \cup StepDefault(s)
    \cup StepSegv(s)

JumpInputs == {q \in Inputs : Balanced(q)}

InitJump ==
    \E in \in JumpInputs :
        /\ stdin = in
        /\ code = Fresh(in).code
        /\ cp = 0
        /\ ip = 0
        /\ data = Fresh(in).data
        /\ dp = 0
        /\ out = <<>>
        /\ status = "Loading"
        /\ lastip = -1
        /\ twin = Fresh(in)

JumpStep ==
    /\ \E n \in Succ(cur) : Become(n)
    /\ IF twin.ip = ip THEN twin' \in SuccPast(twin) ELSE twin' = twin

SpecJump == InitJump /\ [][JumpStep]_vars

\* The same two runs while every access stays inside code[] and data[].
JumpStepDefined == ~Faults(cur) /\ ~Faults(twin) /\ JumpStep

SpecJumpDefined == InitJump /\ [][JumpStepDefined]_vars

====
